---- MODULE Spec2Model ----
(***************************************************************************)
(* A model of pot.py: the Pot / ImagePot classes of the POT trainer.       *)
(*                                                                         *)
(* The life cycle of one ImagePot object (constructor and graph building,  *)
(* train, sample, __exit__) and the optimization loop of _train_internal   *)
(* are modelled as a state machine.  TensorFlow, numpy, ops, utils and     *)
(* Metrics are collaborators: a call of them is an event in a log, and an  *)
(* exception of theirs is the action TrainRaises.                          *)
(***************************************************************************)
EXTENDS Integers, Sequences, FiniteSets, TLC

VARIABLES
    opts,        \* the configuration mapping handed to every method
    data,        \* the data provider: num_points and data_shape
    pc,          \* where the object / the running train call is
    trained,     \* Pot._trained
    graph,       \* what _build_model_internal left on the object
    epoch,       \* _epoch of _train_internal
    idx,         \* _idx of _train_internal
    counter,     \* counter of _train_internal (the global step)
    saves,       \* history: the saver.save requests of the running train call
    epochEnds,   \* history: the value of counter at the end of every epoch
    epochStarts, \* history: the epochs the running train call has started
    stepLog,     \* history: the session.run calls of the last batch step
    decay,       \* decay of _train_internal (the learning-rate decay factor)
    losses,      \* losses of _train_internal (the loss history)
    stepTrace,   \* history: what the last batch step did, in order
    everTrained, \* history: some train call has returned normally
    ret,         \* the outcome of the last call that came back to the caller
    arg,         \* the argument of the running call of a helper
    res          \* the locals and the result of the running call of a helper

vars == <<opts, data, pc, trained, graph, epoch, idx, counter, saves,
          epochEnds, epochStarts, stepLog, decay, losses, stepTrace,
          everTrained, ret, arg, res>>

loopVars == <<epoch, idx, counter, saves, epochEnds, epochStarts, stepLog,
              decay, losses, stepTrace>>

lifeVars == <<data, pc, trained, graph, loopVars, everTrained, ret>>

----------------------------------------------------------------------------
(* Bounds of the model. *)

MaxEpochs == 11
MaxPoints == 3
MaxBatch == 2
MaxSaveEvery == 5
MaxSampleNum == 2
MaxLifeEpochs == 1
MaxWeight == 2
MaxLoss == 2
MaxDim == 2
MaxPointSize == 4
MaxBatchPoints == 2
MaxDiff == 1
MaxFeed == 4
MaxRunBatch == 3
MaxDiagEpochs == 5
MaxDecayEpochs == 101
MaxHalflife == 2
MaxCramerN == 3

----------------------------------------------------------------------------
(* Graph building: ImagePot._build_model_internal and what it calls.       *)
(* Of a network the model keeps the errors it can raise and the scopes of  *)
(* the trainable variables it creates, for e_num_layers = g_num_layers = 2 *)
(* and without batch norm and 3x3 convolutions.  A variable is its name as *)
(* the sequence of its scopes.                                             *)

NoVars == {}

Failure(e) == [error |-> e, vars |-> NoVars]

Built(vs) == [error |-> "none", vars |-> vs]

\* One spatial size through the five (kernel, stride) layers of ali_encoder.
ali_encoder_height(h) ==
    LET h0 == (h - 5) \div 1 + 1
        h1 == (h0 - 4) \div 2 + 1
        h2 == (h1 - 4) \div 1 + 1
        h3 == (h2 - 4) \div 2 + 1
        h4 == (h3 - 4) \div 1 + 1
    IN  h4

\* One spatial size through the five (kernel, stride) layers of ali_deconv.
ali_deconv_height ==
    LET h0 == (1 - 1) * 1 + 4
        h1 == (h0 - 1) * 2 + 4
        h2 == (h1 - 1) * 1 + 4
        h3 == (h2 - 1) * 2 + 4
        h4 == (h3 - 1) * 1 + 5
    IN  h4

ali_encoder(o, d) ==
    IF d.data_shape[1] # d.data_shape[2] THEN Failure("AssertionError")
    ELSE IF ali_encoder_height(d.data_shape[1]) # 1 THEN Failure("AssertionError")
    ELSE Built({<<"ENCODER", "h0_conv">>, <<"ENCODER", "h1_conv">>,
                <<"ENCODER", "h2_conv">>, <<"ENCODER", "h3_conv">>,
                <<"ENCODER", "h4_conv">>, <<"ENCODER", "conv2d_1x1">>,
                <<"ENCODER", "conv2d_1x1_2">>, <<"ENCODER", "hlast_lin">>})

dcgan_encoder(o, d) ==
    Built({<<"ENCODER", "h0_conv">>, <<"ENCODER", "h1_conv">>,
           <<"ENCODER", "hlast_lin">>})

encoder(o, d) ==
    IF ~o.convolutions
    THEN Built({<<"ENCODER", "h0_lin">>, <<"ENCODER", "h1_lin">>,
                <<"ENCODER", "h2_lin">>, <<"ENCODER", "h3_lin">>})
    ELSE IF o.e_arch = "dcgan" THEN dcgan_encoder(o, d)
    ELSE IF o.e_arch = "ali" THEN ali_encoder(o, d)
    ELSE Failure("ValueError")

dcgan_like_arch(o, d) ==
    IF o.g_arch \in {"dcgan", "dcgan_mod"}
    THEN Built({<<"GENERATOR", "h0_lin">>, <<"GENERATOR", "h0_deconv">>,
                <<"GENERATOR", "hlast_deconv">>})
    ELSE Failure("AssertionError")

conv_up_res(o, d) ==
    Built({<<"GENERATOR", "h0_lin">>, <<"GENERATOR", "conv2d_0">>,
           <<"GENERATOR", "last_conv2d_0">>})

ali_deconv(o, d) ==
    IF ali_deconv_height # d.data_shape[1] THEN Failure("AssertionError")
    ELSE IF ali_deconv_height # d.data_shape[2] THEN Failure("AssertionError")
    ELSE Built({<<"GENERATOR", "h0_deconv">>, <<"GENERATOR", "h1_deconv">>,
                <<"GENERATOR", "h2_deconv">>, <<"GENERATOR", "h3_deconv">>,
                <<"GENERATOR", "h4_deconv">>, <<"GENERATOR", "conv2d_1x1">>,
                <<"GENERATOR", "conv2d_1x1_2">>})

\* generator with an unknown g_arch falling back to a default architecture.
generator_fallback(o, d) ==
    IF ~o.convolutions
    THEN Built({<<"GENERATOR", "h0_lin">>, <<"GENERATOR", "h1_lin">>,
                <<"GENERATOR", "h2_lin">>, <<"GENERATOR", "h3_lin">>})
    ELSE IF o.g_arch = "ali" THEN ali_deconv(o, d)
    ELSE conv_up_res(o, d)

generator(o, d) ==
    IF ~o.convolutions
    THEN Built({<<"GENERATOR", "h0_lin">>, <<"GENERATOR", "h1_lin">>,
                <<"GENERATOR", "h2_lin">>, <<"GENERATOR", "h3_lin">>})
    ELSE IF o.g_arch \in {"dcgan", "dcgan_mod"} THEN dcgan_like_arch(o, d)
    ELSE IF o.g_arch = "conv_up_res" THEN conv_up_res(o, d)
    ELSE IF o.g_arch = "ali" THEN ali_deconv(o, d)
    ELSE Failure("ValueError")

\* The latent critic: h0_lin and one more linear layer per further layer.
discriminator(o) ==
    Built({<<"DISCRIMINATOR", "h0_lin">>}
          \cup (IF o.d_num_layers > 1 THEN {<<"DISCRIMINATOR", "h1_lin">>} ELSE {}))

\* discriminator_test with an unknown z_test treated like the moments test.
discriminator_test_default(o) ==
    Built({})

\* The deterministic tests create no variables; an unknown name raises.
discriminator_test(o) ==
    IF o.z_test = "cramer" THEN Built({})
    ELSE IF o.z_test = "anderson" THEN Built({})
    ELSE IF o.z_test = "moments" THEN Built({})
    ELSE Failure("ValueError")

\* The auxiliary critic head in data space: one linear layer outside every scope.
recon_loss_using_disc_encoder(o) ==
    Built({<<"adv_layer">>})

\* 'DISCRIMINATOR/' in var.name: a scope DISCRIMINATOR that something follows.
InDiscriminatorScope(name) ==
    \E i \in 1..(Len(name) - 1) : name[i] = "DISCRIMINATOR"

d_vars_of(t_vars) == {v \in t_vars : InDiscriminatorScope(v)}

\* eg_vars without the name filter: every trainable variable.
eg_vars_unfiltered(t_vars) == t_vars

eg_vars_of(t_vars) == {v \in t_vars : ~InDiscriminatorScope(v)}

NoGraph ==
    [error |-> "unbuilt", t_vars |-> NoVars, d_vars |-> NoVars,
     eg_vars |-> NoVars, optim |-> FALSE, d_optim |-> FALSE]

FailedGraph(e) == [NoGraph EXCEPT !.error = e]

build_model_internal(o, d) ==
    LET enc == encoder(o, d)
        gen == generator(o, d)
        lat == IF o.z_test = "gan" THEN discriminator(o) ELSE discriminator_test(o)
        aux == IF o.adv_c_loss_w > 0 \/ o.emb_c_loss_w > 0
               THEN recon_loss_using_disc_encoder(o) ELSE Built({})
        t_vars == enc.vars \cup gen.vars \cup lat.vars \cup aux.vars
        d_vars == d_vars_of(t_vars)
        eg_vars == eg_vars_of(t_vars)
    IN  IF enc.error # "none" THEN FailedGraph(enc.error)
        ELSE IF gen.error # "none" THEN FailedGraph(gen.error)
        ELSE IF o.recon_loss \notin {"l2", "l1"} THEN FailedGraph("AssertionError")
        ELSE IF lat.error # "none" THEN FailedGraph(lat.error)
        ELSE [error |-> "none", t_vars |-> t_vars, d_vars |-> d_vars,
              eg_vars |-> eg_vars, optim |-> TRUE,
              d_optim |-> (Cardinality(d_vars) > 0)]

----------------------------------------------------------------------------
(* The configurations and data providers the model is run on. *)

\* opts['decay_schedule']: the string 'manual', or a half-life in epochs.
Manual == [manual |-> TRUE, halflife |-> 1]

Halflife(h) == [manual |-> FALSE, halflife |-> h]

ValidZTests == {"cramer", "anderson", "moments", "gan"}

ZTests == ValidZTests \cup {"wasserstein"}

GArchs == {"dcgan", "dcgan_mod", "conv_up_res", "ali", "resnet"}

EArchs == {"dcgan", "ali", "resnet"}

ReconLosses == {"l2", "l1", "cross_entropy"}

DataShapes == {<<32, 32, 3>>, <<28, 28, 1>>}

\* Every graph option varies; the loop is short.
\* save_every_epoch and batch_size are at least 1: with 0 the modulo of line 780
\* and the division of line 756 raise ZeroDivisionError.
BuildOpts ==
    [z_test : ZTests, convolutions : BOOLEAN, g_arch : GArchs, e_arch : EArchs,
     recon_loss : ReconLosses, adv_c_loss_w : 0..1, emb_c_loss_w : 0..1,
     d_num_layers : 1..2, gan_epoch_num : 0..MaxLifeEpochs, batch_size : {1},
     save_every_epoch : {1}, decay_schedule : {Manual}, verbose : {0},
     plot_every : {1}]

BuildData == [num_points : {2}, data_shape : DataShapes]

\* Every loop option varies; the graph is one with and one without a critic.
TrainOpts ==
    [z_test : {"moments", "gan"}, convolutions : {FALSE}, g_arch : {"dcgan"},
     e_arch : {"dcgan"}, recon_loss : {"l2"}, adv_c_loss_w : {0},
     emb_c_loss_w : {0}, d_num_layers : {2}, gan_epoch_num : 0..MaxEpochs,
     batch_size : 1..MaxBatch, save_every_epoch : 1..MaxSaveEvery,
     decay_schedule : {Manual}, verbose : {0}, plot_every : {1}]

TrainData == [num_points : 1..MaxPoints, data_shape : {<<28, 28, 1>>}]

NoRet == [op |-> "none", outcome |-> "none", value |-> "none", num |-> 0]

Returned(op, value, num) ==
    [op |-> op, outcome |-> "returned", value |-> value, num |-> num]

Raised(op, error, num) ==
    [op |-> op, outcome |-> "raised", value |-> error, num |-> num]

----------------------------------------------------------------------------
(* The object's life cycle: Pot.__init__, train, sample, __exit__. *)

NoArg == [fn |-> "none"]

\* The decay factor 10^(-num / den) / div: decay = 1. is div = 1, num = 0.
DecayOne == [div |-> 1, num |-> 0, den |-> 1]

NoRes == [outcome |-> "none"]

InitWith(optsSet, dataSet, pc0) ==
    /\ opts \in optsSet
    /\ data \in dataSet
    /\ pc = pc0
    /\ trained = FALSE
    /\ graph = NoGraph
    /\ epoch = 0
    /\ idx = 0
    /\ counter = 0
    /\ saves = <<>>
    /\ epochEnds = <<>>
    /\ epochStarts = <<>>
    /\ stepLog = <<>>
    /\ decay = DecayOne
    /\ losses = <<>>
    /\ stepTrace = <<>>
    /\ everTrained = FALSE
    /\ ret = NoRet

Init == InitWith(BuildOpts, BuildData, "new") /\ arg = NoArg /\ res = NoRes

InitTrain == InitWith(TrainOpts, TrainData, "new") /\ arg = NoArg /\ res = NoRes

\* Pot.__init__ / ImagePot.__init__: _trained = False, then the graph is built;
\* an exception of the build leaves no object to call anything on.
Construct ==
    /\ pc = "new"
    /\ trained' = FALSE
    /\ graph' = build_model_internal(opts, data)
    /\ IF graph'.error = "none"
       THEN /\ pc' = "idle"
            /\ ret' = Returned("init", "object", 0)
       ELSE /\ pc' = "failed"
            /\ ret' = Raised("init", graph'.error, 0)
    /\ UNCHANGED <<arg, res, opts, data, loopVars, everTrained>>

\* batches_num rounded up instead of down.
batches_num_ceil ==
    (data.num_points + opts.batch_size - 1) \div opts.batch_size

batches_num == data.num_points \div opts.batch_size

\* train with _trained set before _train_internal is called.
TrainStart_marks_trained ==
    /\ pc = "idle"
    /\ pc' = "epoch"
    /\ trained' = TRUE
    /\ epoch' = 0
    /\ idx' = 0
    /\ counter' = 0
    /\ saves' = <<>>
    /\ epochEnds' = <<>>
    /\ epochStarts' = <<>>
    /\ stepLog' = <<>>
    /\ decay' = DecayOne
    /\ losses' = <<>>
    /\ stepTrace' = <<>>
    /\ UNCHANGED <<arg, res, opts, data, graph, everTrained, ret>>

\* Pot.train entering _train_internal: the locals before the epoch loop.
TrainStart ==
    /\ pc = "idle"
    /\ pc' = "epoch"
    /\ epoch' = 0
    /\ idx' = 0
    /\ counter' = 0
    /\ saves' = <<>>
    /\ epochEnds' = <<>>
    /\ epochStarts' = <<>>
    /\ stepLog' = <<>>
    /\ decay' = DecayOne
    /\ losses' = <<>>
    /\ stepTrace' = <<>>
    /\ UNCHANGED <<arg, res, opts, data, trained, graph, everTrained, ret>>

\* The save made in the last epoch of each period.
SaveDue_period_end(e) == (e + 1) % opts.save_every_epoch = 0

\* The save condition without its _epoch > 0 conjunct.
SaveDue_no_guard(e) == e % opts.save_every_epoch = 0

SaveDue(e) == e > 0 /\ e % opts.save_every_epoch = 0

\* The manual schedule with every drop set, not divided: 1/5, 1/10, 1/100.
next_decay_absolute(d, e) ==
    IF opts.decay_schedule.manual
    THEN IF e = 30 THEN [d EXCEPT !.div = 5]
         ELSE IF e = 50 THEN [d EXCEPT !.div = 10]
         ELSE IF e = 100 THEN [d EXCEPT !.div = 100]
         ELSE d
    ELSE [div |-> 1, num |-> e, den |-> opts.decay_schedule.halflife]

\* The decay factor of epoch e, from the one of the epoch before.
next_decay(d, e) ==
    IF opts.decay_schedule.manual
    THEN LET d30 == IF e = 30 THEN [d EXCEPT !.div = @ * 5] ELSE d
             d50 == IF e = 50 THEN [d30 EXCEPT !.div = @ * 10] ELSE d30
             d100 == IF e = 100 THEN [d50 EXCEPT !.div = @ * 100] ELSE d50
         IN  d100
    ELSE [div |-> 1, num |-> e, den |-> opts.decay_schedule.halflife]

\* The head of one epoch: the decay factor and the checkpoint request, then
\* the batch loop starts.
EpochStart ==
    /\ pc = "epoch"
    /\ epoch < opts.gan_epoch_num
    /\ decay' = next_decay(decay, epoch)
    /\ epochStarts' = Append(epochStarts, epoch)
    /\ saves' = IF SaveDue(epoch)
                THEN Append(saves, [epoch |-> epoch, global_step |-> counter])
                ELSE saves
    /\ idx' = 0
    /\ pc' = "batch"
    /\ UNCHANGED <<arg, res, opts, data, trained, graph, epoch, counter, epochEnds,
                   stepLog, losses, stepTrace, everTrained, ret>>

\* The session.run calls of one batch step, in order.
StepCalls ==
    <<[optimizer |-> "optim", var_list |-> graph.eg_vars]>>
    \o (IF graph.d_optim
        THEN <<[optimizer |-> "d_optim", var_list |-> graph.d_vars]>>
        ELSE <<>>)

NoFeed ==
    [real_points |-> 0, noise |-> 0, lr_decay |-> DecayOne, is_training |-> FALSE]

Event(ev, what, feed, rec_test) ==
    [ev |-> ev, what |-> what, feed |-> feed, rec_test |-> rec_test]

\* batch_images and batch_noise of step k: the k-th draw of each.
StepDraw(k) == [NoFeed EXCEPT !.real_points = k, !.noise = k]

\* The feed_dict of the run of optim in step k.
OptimFeed(k) ==
    [real_points |-> StepDraw(k).real_points, noise |-> StepDraw(k).noise,
     lr_decay |-> decay, is_training |-> TRUE]

\* The critic fed with noise drawn anew.
CriticFeed_fresh_noise(k) == [OptimFeed(k) EXCEPT !.noise = k + 1]

\* The feed_dict of the run of d_optim in step k.
CriticFeed(k) ==
    [real_points |-> StepDraw(k).real_points, noise |-> StepDraw(k).noise,
     lr_decay |-> decay, is_training |-> TRUE]

\* The loss history without the append.
StepLosses_kept(k) == losses

\* losses.append(loss): the loss the run of optim in step k gave back.
StepLosses(k) == Append(losses, k)

\* The update with the critic run in every configuration.
UpdateEvents_always_critic(k) ==
    <<Event("draw", "batch", StepDraw(k), FALSE),
      Event("run", "optim", OptimFeed(k), FALSE),
      Event("append", "losses", NoFeed, FALSE),
      Event("run", "d_optim", CriticFeed(k), FALSE),
      Event("counter", "increment", NoFeed, FALSE)>>

\* The draws, the updates and the increment of the counter of step k.
UpdateEvents(k) ==
    <<Event("draw", "batch", StepDraw(k), FALSE),
      Event("run", "optim", OptimFeed(k), FALSE),
      Event("append", "losses", NoFeed, FALSE)>>
    \o (IF graph.d_optim
        THEN <<Event("run", "d_optim", CriticFeed(k), FALSE)>>
        ELSE <<>>)
    \o <<Event("counter", "increment", NoFeed, FALSE)>>

LogEvery == 100

\* opts['verbose'] as a condition.
Verbose == opts.verbose # 0

\* The held-out plot made on every step that plots.
DiagEvents_plot_always(c) ==
    IF Verbose /\ c % LogEvery = 0
    THEN <<Event("eval", "test", NoFeed, TRUE),
           Event("log", "losses", NoFeed, FALSE)>>
         \o (IF c % opts.plot_every = 0
             THEN <<Event("plot", "test_reconstr", NoFeed, TRUE)>>
             ELSE <<>>)
    ELSE IF Verbose /\ c % opts.plot_every = 0
    THEN <<Event("plot", "test_reconstr", NoFeed, TRUE)>>
    ELSE <<>>

\* The diagnostics on the held-out data once the counter is c.
DiagEvents(c) ==
    IF Verbose /\ c % LogEvery = 0
    THEN <<Event("eval", "test", NoFeed, TRUE),
           Event("log", "losses", NoFeed, FALSE)>>
         \o (IF c % opts.plot_every = 0
             THEN <<Event("plot", "test_reconstr", NoFeed, TRUE)>>
             ELSE <<>>)
    ELSE <<>>

\* rec_test after the diagnostics: None unless they ran in this step.
RecTestSet(c) == Verbose /\ c % LogEvery = 0

\* The plots made whenever verbose is set.
PlotEvents_every_step(c) ==
    IF Verbose
    THEN <<Event("plot", "sample", NoFeed, RecTestSet(c)),
           Event("plot", "reconstr", NoFeed, FALSE)>>
    ELSE <<>>

\* The plots of samples and train reconstructions once the counter is c.
PlotEvents(c) ==
    IF Verbose /\ c % opts.plot_every = 0
    THEN <<Event("plot", "sample", NoFeed, RecTestSet(c)),
           Event("plot", "reconstr", NoFeed, FALSE)>>
    ELSE <<>>

\* One pass of the batch loop.
BatchStep ==
    /\ pc = "batch"
    /\ idx < batches_num
    /\ stepLog' = StepCalls
    /\ losses' = StepLosses(counter + 1)
    /\ counter' = counter + 1
    /\ stepTrace' = UpdateEvents(counter + 1) \o DiagEvents(counter + 1)
                        \o PlotEvents(counter + 1)
    /\ idx' = idx + 1
    /\ UNCHANGED <<arg, res, opts, data, pc, trained, graph, epoch, saves, epochEnds,
                   epochStarts, decay, everTrained, ret>>

\* The batch loop is exhausted: on to the next epoch.
EpochEnd ==
    /\ pc = "batch"
    /\ idx >= batches_num
    /\ epochEnds' = Append(epochEnds, counter)
    /\ epoch' = epoch + 1
    /\ pc' = "epoch"
    /\ UNCHANGED <<arg, res, opts, data, trained, graph, idx, counter, saves,
                   epochStarts, stepLog, decay, losses, stepTrace, everTrained,
                   ret>>

\* The epoch loop is exhausted: _train_internal returns and train sets _trained.
TrainReturn ==
    /\ pc = "epoch"
    /\ epoch >= opts.gan_epoch_num
    /\ trained' = TRUE
    /\ everTrained' = TRUE
    /\ pc' = "idle"
    /\ ret' = Returned("train", "None", 0)
    /\ UNCHANGED <<arg, res, opts, data, graph, loopVars>>

\* A collaborator raises inside a batch step: the exception leaves train.
TrainRaises ==
    /\ pc = "batch"
    /\ idx < batches_num
    /\ pc' = "idle"
    /\ ret' = Raised("train", "Exception", 0)
    /\ UNCHANGED <<arg, res, opts, data, trained, graph, loopVars, everTrained>>

\* ImagePot._sample_internal: the sampling code is commented out.
sample_internal(num) == Returned("sample", "None", num)

\* sample without its assertion.
sample_unchecked(num) == sample_internal(num)

\* Pot.sample: the assertion, then _sample_internal.
sample(num) ==
    IF ~trained THEN Raised("sample", "AssertionError", num)
    ELSE sample_internal(num)

Sample ==
    /\ pc = "idle"
    /\ \E num \in 1..MaxSampleNum : ret' = sample(num)
    /\ UNCHANGED <<arg, res, opts, data, pc, trained, graph, loopVars, everTrained>>

\* Pot.__exit__: the graph is reset and the session closed.
Exit ==
    /\ pc = "idle"
    /\ pc' = "closed"
    /\ ret' = Returned("exit", "None", 0)
    /\ UNCHANGED <<arg, res, opts, data, trained, graph, loopVars, everTrained>>

LoopNext == EpochStart \/ BatchStep \/ EpochEnd \/ TrainReturn

Next ==
    \/ Construct
    \/ TrainStart
    \/ LoopNext
    \/ TrainRaises
    \/ Sample
    \/ Exit

Spec == Init /\ [][Next]_vars

SpecTrain == InitTrain /\ [][Next]_vars

\* One train call left alone: no collaborator raises and the caller only trains.
\* The loop is one thread of synchronous calls, each of which comes back, so a
\* loop step that can be taken is taken.
NextLoop ==
    \/ Construct
    \/ TrainStart
    \/ LoopNext

SpecLoop == InitTrain /\ [][NextLoop]_vars /\ WF_vars(LoopNext)

\* The plots of reconstructions index the first 8 * 10 train and test points.
PlotPoints == 80

\* Long runs with the reports on: the counter passes 100 and 200.
\* plot_every is at least 1: with 0 the modulo of line 857 raises.  The data
\* provider holds the PlotPoints train and test points the plots index.
PlotEverys == {40, 50, 300}

DiagOpts ==
    [z_test : {"moments", "gan"}, convolutions : {FALSE}, g_arch : {"dcgan"},
     e_arch : {"dcgan"}, recon_loss : {"l2"}, adv_c_loss_w : {0},
     emb_c_loss_w : {0}, d_num_layers : {2}, gan_epoch_num : 0..MaxDiagEpochs,
     batch_size : {1}, save_every_epoch : {2}, decay_schedule : {Manual},
     verbose : 0..2, plot_every : PlotEverys]

DiagData == [num_points : {PlotPoints}, data_shape : {<<28, 28, 1>>}]

InitDiag == InitWith(DiagOpts, DiagData, "new") /\ arg = NoArg /\ res = NoRes

SpecDiag == InitDiag /\ [][NextLoop]_vars

\* Many epochs of two steps under both schedules.  Any float but 0 passes as
\* a half-life: with 0 the division of line 778 raises in the first epoch.
Halflives == ((0 - MaxHalflife)..MaxHalflife) \ {0}

DecayOpts ==
    [z_test : {"moments", "gan"}, convolutions : {FALSE}, g_arch : {"dcgan"},
     e_arch : {"dcgan"}, recon_loss : {"l2"}, adv_c_loss_w : {0},
     emb_c_loss_w : {0}, d_num_layers : {2}, gan_epoch_num : 0..MaxDecayEpochs,
     batch_size : {1}, save_every_epoch : {MaxDecayEpochs},
     decay_schedule : {Manual} \cup {Halflife(h) : h \in Halflives},
     verbose : {0},
     plot_every : {1}]

DecayData == [num_points : {2}, data_shape : {<<28, 28, 1>>}]

InitDecay == InitWith(DecayOpts, DecayData, "new") /\ arg = NoArg /\ res = NoRes

SpecDecay == InitDecay /\ [][NextLoop]_vars

----------------------------------------------------------------------------
(* The objective of _build_model_internal, on the values of its terms.     *)
(* Losses and weights are floats in the code; the model takes them from    *)
(* small ranges of integers, where the same sums and products are exact.   *)
(* The weights are not negative, as the configuration surface says.        *)

ObjectiveOpts ==
    [z_test : ValidZTests, pot_lambda : 0..MaxWeight, z_test_corr_w : 0..MaxWeight,
     adv_c_loss_w : 0..MaxWeight, emb_c_loss_w : 0..MaxWeight]

TermValues ==
    [loss_reconstr : 0..1, test_v : {1}, loss_z_corr : 1..MaxLoss, d_loss_Qz : {2},
     adv_c_loss : 1..MaxLoss, emb_c_loss : 1..MaxLoss]

NoData == [num_points |-> 0, data_shape |-> <<>>]

\* The correlation term added on both paths.
loss_gan_corr_always(o, v) ==
    (IF o.z_test = "gan" THEN 0 - v.d_loss_Qz ELSE v.test_v)
    + o.z_test_corr_w * v.loss_z_corr

\* loss_gan: minus the critic's loss on the codes, or the test plus correlation.
loss_gan(o, v) ==
    IF o.z_test = "gan" THEN 0 - v.d_loss_Qz
    ELSE v.test_v + o.z_test_corr_w * v.loss_z_corr

\* The objective with the auxiliary block added only when both weights are set.
total_loss_both(o, v) ==
    LET loss == v.loss_reconstr + o.pot_lambda * loss_gan(o, v)
    IN  IF o.adv_c_loss_w > 0 /\ o.emb_c_loss_w > 0
        THEN loss + (o.adv_c_loss_w * v.adv_c_loss
                     + o.emb_c_loss_w * v.emb_c_loss)
        ELSE loss

\* loss: what optim minimizes.
total_loss(o, v) ==
    LET loss == v.loss_reconstr + o.pot_lambda * loss_gan(o, v)
    IN  IF o.adv_c_loss_w > 0 \/ o.emb_c_loss_w > 0
        THEN loss + (o.adv_c_loss_w * v.adv_c_loss
                     + o.emb_c_loss_w * v.emb_c_loss)
        ELSE loss

InitObjective ==
    /\ InitWith(ObjectiveOpts, {NoData}, "obj_call")
    /\ arg \in TermValues
    /\ res = NoRes

AssembleLoss ==
    /\ pc = "obj_call"
    /\ res' = [outcome |-> "returned", loss |-> total_loss(opts, arg),
               loss_gan |-> loss_gan(opts, arg)]
    /\ pc' = "obj_done"
    /\ UNCHANGED <<arg, opts, data, trained, graph, loopVars, everTrained, ret>>

NextObjective == AssembleLoss

SpecObjective == InitObjective /\ [][NextObjective]_vars

----------------------------------------------------------------------------
(* The reconstruction loss of _build_model_internal on one batch.          *)
(* A batch is the tensor real_points - reconstructed_training, of shape    *)
(* [N, H, W, C], with entries in units of 1e-4: the 1e-08 under the square *)
(* root is then one unit of the squares.  A loss is a mean of square roots *)
(* of integers, kept exactly: sqrt(r) = a * sqrt(s) with s square-free,    *)
(* coef[s] the sum of the a, den the number of values averaged.  Two such  *)
(* means are equal exactly when their coefficients agree, the square roots *)
(* of distinct square-free integers being independent over the rationals.  *)

EpsUnits == 1

RadBound == MaxPointSize * MaxDiff * MaxDiff + EpsUnits

PointShapes ==
    {sh \in (1..MaxDim) \X (1..MaxDim) \X (1..MaxDim) :
        sh[1] * sh[2] * sh[3] <= MaxPointSize}

Entries(n, sh) == (1..n) \X (1..sh[1]) \X (1..sh[2]) \X (1..sh[3])

RECURSIVE SumOver(_, _)
SumOver(f, S) ==
    IF S = {} THEN 0
    ELSE LET x == CHOOSE y \in S : TRUE
         IN  f[x] + SumOver(f, S \ {x})

Abs(x) == IF x < 0 THEN 0 - x ELSE x

RootPart(r) ==
    CHOOSE a \in 1..r :
        /\ r % (a * a) = 0
        /\ \A b \in (a + 1)..r : r % (b * b) # 0

FreePart(r) == r \div (RootPart(r) * RootPart(r))

\* The mean of sqrt(rad[x]) over x in S.
MeanOfRoots(rad, S) ==
    [coef |-> [s \in 1..RadBound |->
                  SumOver([x \in S |-> IF FreePart(rad[x]) = s
                                       THEN RootPart(rad[x]) ELSE 0], S)],
     den |-> Cardinality(S)]

\* The mean of val[x] over x in S.
MeanOf(val, S) ==
    [coef |-> [s \in 1..RadBound |-> IF s = 1 THEN SumOver(val, S) ELSE 0],
     den |-> Cardinality(S)]

LossEq(a, b) ==
    \A s \in 1..RadBound : a.coef[s] * b.den = b.coef[s] * a.den

\* What reduce_sum(..., axis=1) leaves: one entry per (n, w, c), summed over h.
Axis1Cells(a) == (1..a.n) \X (1..a.shape[2]) \X (1..a.shape[3])

loss_reconstr(o, a) ==
    LET cells == Axis1Cells(a)
        hs == 1..a.shape[1]
        sq == [x \in cells |->
                 SumOver([h \in hs |-> a.diff[<<x[1], h, x[2], x[3]>>]
                                       * a.diff[<<x[1], h, x[2], x[3]>>]], hs)]
        ab == [x \in cells |->
                 SumOver([h \in hs |-> Abs(a.diff[<<x[1], h, x[2], x[3]>>])], hs)]
    IN  IF o.recon_loss = "l2"
        THEN MeanOfRoots([x \in cells |-> sq[x] + EpsUnits], cells)
        ELSE MeanOf(ab, cells)

InitRecon ==
    /\ \E n \in 1..MaxBatchPoints, sh \in PointShapes :
          /\ InitWith([recon_loss : {"l2", "l1"}],
                      {[num_points |-> n, data_shape |-> sh]}, "rec_call")
          /\ arg \in [n : {n}, shape : {sh},
                      diff : [Entries(n, sh) -> (0 - MaxDiff)..MaxDiff]]
    /\ res = NoRes

ReconLoss ==
    /\ pc = "rec_call"
    /\ res' = [outcome |-> "returned", loss |-> loss_reconstr(opts, arg)]
    /\ pc' = "rec_done"
    /\ UNCHANGED <<arg, opts, data, trained, graph, loopVars, everTrained, ret>>

NextRecon == ReconLoss

SpecRecon == InitRecon /\ [][NextRecon]_vars

----------------------------------------------------------------------------
(* Pot._run_batch on a feed of a given shape.  The operation is applied    *)
(* point-wise, so a slice of k points gives k rows; a row is the index of  *)
(* its point.                                                              *)

FeedShapes ==
    {<<>>} \cup {<<n>> : n \in 0..MaxFeed} \cup {<<n, 2>> : n \in 0..MaxFeed}

\* batches_num as n / batch_size + 1.
run_batches_num_plus_one(n, b) == n \div b + 1

\* int(np.ceil((num_points + 0.) / batch_size))
run_batches_num(n, b) == (n + b - 1) \div b

\* The slice with its upper end included.
SliceRows_inclusive(lo, hi, n) ==
    LET l == IF lo < n THEN lo ELSE n
        h == IF hi + 1 < n THEN hi + 1 ELSE n
    IN  [i \in 1..(IF h > l THEN h - l ELSE 0) |-> l + i - 1]

\* feed[lo:hi] on the first axis of n points.
SliceRows(lo, hi, n) ==
    LET l == IF lo < n THEN lo ELSE n
        h == IF hi < n THEN hi ELSE n
    IN  [i \in 1..(IF h > l THEN h - l ELSE 0) |-> l + i - 1]

InitRunBatch ==
    /\ InitWith([tf_run_batch_size : 1..MaxRunBatch], {NoData}, "rb_call")
    /\ arg \in [shape : FeedShapes]
    /\ res = NoRes

\* The assertion on the feed and the locals before the loop.
RunBatchBegin ==
    /\ pc = "rb_call"
    /\ IF Len(arg.shape) > 0
       THEN /\ res' = [outcome |-> "running", num_points |-> arg.shape[1],
                       batches_num |-> run_batches_num(arg.shape[1],
                                                       opts.tf_run_batch_size),
                       idx |-> 0, result |-> <<>>, rows |-> <<>>]
            /\ pc' = "rb_loop"
       ELSE /\ res' = [outcome |-> "AssertionError", num_points |-> 0,
                       batches_num |-> 0, idx |-> 0, result |-> <<>>,
                       rows |-> <<>>]
            /\ pc' = "rb_done"
    /\ UNCHANGED <<arg, opts, data, trained, graph, loopVars, everTrained, ret>>

\* One pass of the loop: the operation is run on one slice of the feed.
RunBatchSlice ==
    /\ pc = "rb_loop"
    /\ res.idx < res.batches_num
    /\ LET b == opts.tf_run_batch_size
           slice == IF res.idx = res.batches_num - 1
                    THEN SliceRows(res.idx * b, res.num_points, res.num_points)
                    ELSE SliceRows(res.idx * b, (res.idx + 1) * b, res.num_points)
       IN  res' = [res EXCEPT !.result = Append(@, slice), !.idx = @ + 1]
    /\ UNCHANGED <<arg, opts, data, pc, trained, graph, loopVars, everTrained,
                   ret>>

RECURSIVE Flatten(_)
Flatten(ss) == IF ss = <<>> THEN <<>> ELSE Head(ss) \o Flatten(Tail(ss))

\* np.vstack of the results, which raises on an empty list, and the length check.
RunBatchEnd ==
    /\ pc = "rb_loop"
    /\ res.idx >= res.batches_num
    /\ res' = IF res.result = <<>>
              THEN [res EXCEPT !.outcome = "ValueError"]
              ELSE IF Len(Flatten(res.result)) # res.num_points
              THEN [res EXCEPT !.outcome = "AssertionError"]
              ELSE [res EXCEPT !.outcome = "returned",
                               !.rows = Flatten(res.result)]
    /\ pc' = "rb_done"
    /\ UNCHANGED <<arg, opts, data, trained, graph, loopVars, everTrained, ret>>

NextRunBatch == RunBatchBegin \/ RunBatchSlice \/ RunBatchEnd

SpecRunBatch == InitRunBatch /\ [][NextRunBatch]_vars

(***************************************************************************)
(* ImagePot.discriminator_cramer_test on one batch of codes.  A code value *)
(* is in tenths of pot_pz_std and the normal CDF is in hundredths, so the  *)
(* statistic is a fraction num / den of integers.  The codes of a batch are *)
(* -1, 0 or 1 standard deviation.  With z_test_proj_dim = 1 the centred and *)
(* normed projection is 0 for one code dimension and +-(1, -1) / sqrt(2)   *)
(* for two, 1 / sqrt(2) being 0.7 on the grid of tenths.                   *)
(***************************************************************************)
CodeValues == {0 - 10, 0, 10}

CodeDims == 1..2

Batches == UNION {[1..n -> [1..d -> CodeValues]] : n \in 1..MaxCramerN, d \in CodeDims}

\* Normal(0, pot_pz_std).cdf on the grid, in hundredths.
normal_cdf(v) ==
    CASE v = 0 - 14 -> 8
      [] v = 0 - 10 -> 16
      [] v = 0 - 7 -> 24
      [] v = 0 -> 50
      [] v = 7 -> 76
      [] v = 10 -> 84
      [] v = 14 -> 92

\* tf.matmul(input_, proj) of one row, for add_dim = 1.
projected_x(row, sign) ==
    IF Len(row) = 1 THEN 0 ELSE sign * ((7 * (row[1] - row[2])) \div 10)

\* all_dims_x: the rows with the projections appended.
all_dims_x(o, x, sign) ==
    IF o.z_test_proj_dim > 0
    THEN [n \in 1..Len(x) |-> Append(x[n], projected_x(x[n], sign))]
    ELSE x

\* tf.transpose: row d of the result is column d of the batch.
transposed(x) == [d \in 1..Len(x[1]) |-> [n \in 1..Len(x) |-> x[n][d]]]

Largest(vs) == CHOOSE n \in 1..Len(vs) : \A m \in 1..Len(vs) : vs[m] <= vs[n]

Without(vs, n) == SubSeq(vs, 1, n - 1) \o SubSeq(vs, n + 1, Len(vs))

\* tf.nn.top_k(vs, k = Len(vs)).values: the entries, largest first.
RECURSIVE top_k(_)
top_k(vs) ==
    IF vs = <<>> THEN <<>>
    ELSE <<vs[Largest(vs)]>> \o top_k(Without(vs, Largest(vs)))

\* tf.reverse(values, [1]) of one row.
reverse(vs) == [n \in 1..Len(vs) |-> vs[Len(vs) + 1 - n]]

\* The sorted values left as top_k gives them.
sorted_values_unreversed(vs) == top_k(vs)

sorted_values(vs) == reverse(top_k(vs))

\* (expected[i] - normal_cdf[i]) * 100 * N, for the value v at place i of N.
Deviation(i, v, N) == 50 * (2 * i - 1) - N * normal_cdf(v)

RECURSIVE SumSeq(_)
SumSeq(ns) == IF ns = <<>> THEN 0 ELSE Head(ns) + SumSeq(Tail(ns))

\* stat of one batch: reduce_sum over the places, / batch_size, reduce_mean
\* over the dimensions.
cramer_stat(o, x, sign) ==
    LET all == transposed(all_dims_x(o, x, sign))
        N == Len(x)
        sq(vs) == [i \in 1..N |-> Deviation(i, sorted_values(vs)[i], N)
                                      * Deviation(i, sorted_values(vs)[i], N)]
    IN  [num |-> SumSeq([d \in 1..Len(all) |-> SumSeq(sq(all[d]))]),
         den |-> (100 * N) * (100 * N) * N * Len(all)]

\* sign is the order of the two random weights of the projection.
InitCramer ==
    /\ InitWith([z_test_proj_dim : 0..1], {NoData}, "cr_call")
    /\ arg \in [x : Batches, sign : {0 - 1, 1}]
    /\ opts.z_test_proj_dim = 0 => arg.sign = 1
    /\ res = [round |-> 0, stat |-> [num |-> 0, den |-> 1],
              first |-> [num |-> 0, den |-> 1]]

\* One evaluation of the statistic on the batch.
CramerTest ==
    /\ pc = "cr_call"
    /\ res' = [round |-> res.round + 1,
               stat |-> cramer_stat(opts, arg.x, arg.sign),
               first |-> res.stat]
    /\ pc' = "cr_done"
    /\ UNCHANGED <<arg, opts, data, trained, graph, loopVars, everTrained, ret>>

\* The caller feeds the same codes again with two rows exchanged.
CramerPermute ==
    /\ pc = "cr_done"
    /\ res.round = 1
    /\ \E i, j \in 1..Len(arg.x) :
          /\ i < j
          /\ arg' = [arg EXCEPT !.x = [arg.x EXCEPT ![i] = arg.x[j], ![j] = arg.x[i]]]
    /\ pc' = "cr_call"
    /\ UNCHANGED <<res, opts, data, trained, graph, loopVars, everTrained, ret>>

NextCramer == CramerTest \/ CramerPermute

SpecCramer == InitCramer /\ [][NextCramer]_vars

----------------------------------------------------------------------------
(* Claims about the life cycle and the optimization loop. *)

NumSaves(e) == Cardinality({i \in 1..Len(saves) : saves[i].epoch = e})

\* C1: an epoch the train call has started has exactly one checkpoint request
\* if its index is positive and a multiple of save_every_epoch and none
\* otherwise; every request belongs to a started epoch and is made before any
\* batch step of that epoch.
C1_SaveSchedule ==
    /\ \A i \in 1..Len(epochStarts) :
          LET e == epochStarts[i]
          IN  NumSaves(e) =
                 IF e > 0 /\ e % opts.save_every_epoch = 0 THEN 1 ELSE 0
    /\ \A i \in 1..Len(saves) :
          /\ \E j \in 1..Len(epochStarts) : epochStarts[j] = saves[i].epoch
          /\ saves[i].global_step
                = saves[i].epoch * (data.num_points \div opts.batch_size)

TrainDone == pc = "idle" /\ ret.op = "train" /\ ret.outcome = "returned"

C1_Witness ==
    /\ TrainDone
    /\ opts.save_every_epoch = 5
    /\ Len(epochStarts) = 11
    /\ Len(saves) = 2
    /\ saves[1].epoch = 5
    /\ saves[2].epoch = 10

ValidGArchs == {"dcgan", "dcgan_mod", "conv_up_res", "ali"}

ValidEArchs == {"dcgan", "ali"}

\* The variables the critic network creates.
CriticGroup == discriminator(opts).vars

\* C2: with z_test = 'gan' a batch step makes exactly two update calls, one on
\* the variables of the critic and one on all the other trainable variables;
\* the two groups are disjoint, the critic group is not empty and together
\* they are all the trainable variables.
C2_TwoUpdates ==
    (opts.z_test = "gan" /\ stepLog # <<>>) =>
        /\ Len(stepLog) = 2
        /\ \E i, j \in 1..2 :
              /\ i # j
              /\ stepLog[i].optimizer = "d_optim"
              /\ stepLog[i].var_list = CriticGroup
              /\ stepLog[j].optimizer = "optim"
              /\ stepLog[j].var_list = graph.t_vars \ CriticGroup
              /\ stepLog[i].var_list \cap stepLog[j].var_list = {}
              /\ stepLog[i].var_list \cup stepLog[j].var_list = graph.t_vars
        /\ CriticGroup # {}

C2_Witness ==
    /\ opts.z_test = "gan"
    /\ opts.adv_c_loss_w > 0
    /\ Len(stepLog) = 2
    /\ <<"adv_layer">> \in graph.t_vars
    /\ counter = 2

\* C4: a sample call on an object on which no train call has returned raises
\* AssertionError and returns nothing, whatever was called before.
C4_SampleUntrained ==
    (ret.op = "sample" /\ ~everTrained) =>
        /\ ret.outcome = "raised"
        /\ ret.value = "AssertionError"

\* A train call ran a batch step and raised; the sample call after it failed.
C4_Witness ==
    /\ ret.op = "sample"
    /\ ~everTrained
    /\ counter > 0
    /\ ret.value = "AssertionError"

\* C5: with a z_test outside the four supported names the constructor raises:
\* the object never leaves construction, no optimizer exists and no batch
\* step is ever run.
C5_UnknownZTest ==
    opts.z_test \notin ValidZTests =>
        /\ pc \in {"new", "failed"}
        /\ pc = "failed" => ret = Raised("init", graph.error, 0)
        /\ graph.error # "none"
        /\ ~graph.optim
        /\ ~graph.d_optim
        /\ counter = 0
        /\ stepLog = <<>>

C5_Witness ==
    /\ opts.z_test = "wasserstein"
    /\ pc = "failed"
    /\ ret = Raised("init", "ValueError", 0)
    /\ opts.recon_loss = "l2"
    /\ ~opts.convolutions

UnknownArch == opts.g_arch \notin ValidGArchs \/ opts.e_arch \notin ValidEArchs

NeverBuilt ==
    /\ pc \in {"new", "failed"}
    /\ graph.error # "none"
    /\ ~graph.optim
    /\ counter = 0
    /\ stepLog = <<>>

\* C6 as stated: an unknown g_arch or e_arch makes the constructor raise in
\* every configuration, convolutions or not.
C6_UnknownArchAlways == UnknownArch => NeverBuilt

\* C6 amended: an unknown g_arch or e_arch makes the constructor raise when
\* convolutions is set; without convolutions the two names are not read, and
\* a failed construction is due to recon_loss or z_test.
C6_UnknownArchConv ==
    /\ (opts.convolutions /\ UnknownArch) => NeverBuilt
    /\ (~opts.convolutions /\ pc = "failed") =>
          \/ opts.recon_loss \notin {"l2", "l1"}
          \/ opts.z_test \notin ValidZTests

C6_Witness ==
    /\ opts.convolutions
    /\ opts.g_arch = "resnet"
    /\ opts.e_arch = "dcgan"
    /\ pc = "failed"
    /\ ret = Raised("init", "ValueError", 0)

StepsOfEpoch(i) == epochEnds[i] - (IF i = 1 THEN 0 ELSE epochEnds[i - 1])

\* C8: a train call goes from the head of an epoch to its batch steps and back,
\* and returns; when it has returned it has run the epochs 0..gan_epoch_num-1
\* in order, each of floor(num_points / batch_size) batch steps.
C8_LoopTerminates ==
    /\ [][/\ pc = "epoch" => pc' \in {"epoch", "batch", "idle"}
          /\ pc = "batch" => pc' \in {"batch", "epoch"}]_vars
    /\ [](TrainDone =>
            /\ Len(epochStarts) = opts.gan_epoch_num
            /\ \A i \in 1..Len(epochStarts) : epochStarts[i] = i - 1
            /\ Len(epochEnds) = opts.gan_epoch_num
            /\ \A i \in 1..Len(epochEnds) :
                  StepsOfEpoch(i) = data.num_points \div opts.batch_size
            /\ counter
                = opts.gan_epoch_num * (data.num_points \div opts.batch_size))
    /\ (pc \in {"epoch", "batch"}) ~> TrainDone

C8_Witness ==
    /\ TrainDone
    /\ opts.gan_epoch_num = 3
    /\ data.num_points = 3
    /\ opts.batch_size = 2
    /\ epochEnds = <<1, 2, 3>>

\* C9: a sample call after a train call has returned gives back generated
\* points, not None.
C9_SampleReturnsPoints ==
    (ret.op = "sample" /\ everTrained) =>
        /\ ret.outcome = "returned"
        /\ ret.value # "None"

----------------------------------------------------------------------------
(* Claims about the objective, the reconstruction loss and _run_batch. *)

\* C3: the objective is the reconstruction loss plus pot_lambda times the
\* latent-matching loss, plus each auxiliary loss times its weight when that
\* weight is positive; an auxiliary loss whose weight is not positive adds
\* nothing.
C3_Objective ==
    pc = "obj_done" =>
        res.loss = arg.loss_reconstr + opts.pot_lambda * res.loss_gan
                   + (IF opts.adv_c_loss_w > 0
                      THEN opts.adv_c_loss_w * arg.adv_c_loss ELSE 0)
                   + (IF opts.emb_c_loss_w > 0
                      THEN opts.emb_c_loss_w * arg.emb_c_loss ELSE 0)

\* The auxiliary block is built for one positive weight; the other weight is 0.
C3_Witness ==
    /\ pc = "obj_done"
    /\ opts.adv_c_loss_w > 0
    /\ opts.emb_c_loss_w = 0
    /\ arg.emb_c_loss > 0
    /\ res.loss = arg.loss_reconstr + opts.pot_lambda * res.loss_gan
                  + opts.adv_c_loss_w * arg.adv_c_loss

ZeroPoints == Len(arg.shape) = 0 \/ arg.shape[1] = 0

\* C7: on a feed without points _run_batch runs the operation on no slice and
\* does not return: it ends by raising.
C7_EmptyFeed ==
    (pc \in {"rb_loop", "rb_done"} /\ ZeroPoints) =>
        /\ res.result = <<>>
        /\ res.outcome # "returned"
        /\ pc = "rb_done" => res.outcome \in {"AssertionError", "ValueError"}

C7_Witness ==
    /\ pc = "rb_done"
    /\ arg.shape = <<0, 2>>
    /\ res.outcome = "ValueError"
    /\ res.result = <<>>

\* The loss of the claim: one cost per point, over all its components.
PointCells(a) == 1..a.n

PointEntries(a, n) == {n} \X (1..a.shape[1]) \X (1..a.shape[2]) \X (1..a.shape[3])

ClaimedReconLoss(o, a) ==
    LET sq == [n \in PointCells(a) |->
                 SumOver([e \in PointEntries(a, n) |-> a.diff[e] * a.diff[e]],
                         PointEntries(a, n))]
        ab == [n \in PointCells(a) |->
                 SumOver([e \in PointEntries(a, n) |-> Abs(a.diff[e])],
                         PointEntries(a, n))]
    IN  IF o.recon_loss = "l2"
        THEN MeanOfRoots([n \in PointCells(a) |-> sq[n] + EpsUnits], PointCells(a))
        ELSE MeanOf(ab, PointCells(a))

\* C10: the reconstruction loss is the mean over the points of the batch of
\* one cost per point, the square root of eps plus the sum of the squares of
\* all the components of the point (l2) or the sum of their absolute values
\* (l1).
C10_ReconPerPoint ==
    pc = "rec_done" => LossEq(res.loss, ClaimedReconLoss(opts, arg))

\* The value at ascending rank i of the values vs, ties counted.
IthSmallest(vs, i) ==
    CHOOSE v \in {vs[n] : n \in 1..Len(vs)} :
        /\ Cardinality({n \in 1..Len(vs) : vs[n] < v}) < i
        /\ i <= Cardinality({n \in 1..Len(vs) : vs[n] <= v})

\* stat is the mean over the dimensions of
\* (1 / N) * sum over i of (normal_cdf(i-th smallest) - (2i - 1) / (2N))^2,
\* the deviations taken in units of 1 / (200 N).
ClaimedCramer(x, stat) ==
    LET all == transposed(all_dims_x(opts, x, arg.sign))
        N == Len(x)
        dev(vs, i) == 2 * N * normal_cdf(IthSmallest(vs, i)) - 100 * (2 * i - 1)
        cells == (1..Len(all)) \X (1..N)
        num == SumOver([c \in cells |-> dev(all[c[1]], c[2]) * dev(all[c[1]], c[2])],
                       cells)
    IN  /\ Len(all) = Len(x[1]) + opts.z_test_proj_dim
        /\ 4 * stat.num = num
        /\ stat.den = 10000 * N * N * N * Len(all)

\* C11: the Cramer-von Mises statistic is, for each of the D +
\* z_test_proj_dim dimensions, the sum over the ranks i = 1..N of the squared
\* deviation of the reference CDF at the i-th smallest batch value from the
\* rung (2i-1)/(2N), divided by N, averaged over the dimensions; evaluated
\* again on the same rows in another order it gives the same value.
C11_CramerStatistic ==
    pc = "cr_done" =>
        /\ ClaimedCramer(arg.x, res.stat)
        /\ res.round = 2 => res.stat = res.first

\* Rows that differ were exchanged and the statistic was evaluated again, on
\* a batch with a projected dimension whose values are not already sorted.
C11_Witness ==
    /\ pc = "cr_done"
    /\ res.round = 2
    /\ opts.z_test_proj_dim = 1
    /\ Len(arg.x) = MaxCramerN
    /\ Len(arg.x[1]) = 2
    /\ arg.x[1] # arg.x[2]
    /\ arg.x[1][1] > arg.x[2][1]
    /\ projected_x(arg.x[1], arg.sign) < projected_x(arg.x[2], arg.sign)
    /\ res.stat.num > 0

\* The places of the events of kind ev in the trace of the last step.
Places(ev) == {i \in 1..Len(stepTrace) : stepTrace[i].ev = ev}

RunPlaces(what) == {i \in Places("run") : stepTrace[i].what = what}

\* C12: in every batch step the minibatch and the noise are drawn first, then
\* the encoder/generator update runs on them, then, if and only if a critic
\* optimizer exists, the critic update runs with the same minibatch, noise
\* and decay factor, and after all updates the counter is incremented, once;
\* the draws of a step are made after the increment of the step before.
C12_StepOrder ==
    stepTrace # <<>> =>
        /\ stepTrace[1].ev = "draw"
        /\ stepTrace[1].feed.real_points = counter
        /\ stepTrace[1].feed.noise = counter
        /\ Places("draw") = {1}
        /\ RunPlaces("optim") = {2}
        /\ stepTrace[2].feed.real_points = stepTrace[1].feed.real_points
        /\ stepTrace[2].feed.noise = stepTrace[1].feed.noise
        /\ RunPlaces("d_optim") = IF graph.d_optim THEN {4} ELSE {}
        /\ \A i \in RunPlaces("d_optim") : stepTrace[i].feed = stepTrace[2].feed
        /\ Places("run") = RunPlaces("optim") \cup RunPlaces("d_optim")
        /\ Places("counter") = {IF graph.d_optim THEN 5 ELSE 4}

\* The second step of a run with a critic.
C12_Witness ==
    /\ graph.d_optim
    /\ counter = 2
    /\ Len(stepTrace) = 5
    /\ stepTrace[4].what = "d_optim"
    /\ stepTrace[4].feed.noise = 2
    /\ stepTrace[5].ev = "counter"

InTrain == pc \in {"epoch", "batch"}

\* C13: during one train call every step of the program either leaves the
\* counter and the loss history alone or adds 1 to the counter and one entry
\* at the end of the history, the entries before it kept as they were; at
\* every step boundary the history is as long as the counter.
C13_LossHistory ==
    /\ [](Len(losses) = counter)
    /\ [][InTrain =>
             \/ counter' = counter /\ losses' = losses
             \/ /\ counter' = counter + 1
                /\ Len(losses') = Len(losses) + 1
                /\ SubSeq(losses', 1, Len(losses)) = losses]_vars

\* Three steps in, over an epoch boundary.
C13_Witness ==
    /\ InTrain
    /\ epoch = 1
    /\ counter = 3
    /\ Len(losses) = 3
    /\ losses[1] # losses[3]

Sgn(n) == IF n < 0 THEN 0 - 1 ELSE 1

\* The exponent -num / den of a is at most the one of b.
ExponentLeq(a, b) ==
    a.num * b.den * Sgn(a.den) * Sgn(b.den) >= b.num * a.den * Sgn(a.den) * Sgn(b.den)

\* Decay factors 10^(-num / den) / div compared by their two factors.
DecayLeq(a, b) == a.div >= b.div /\ ExponentLeq(a, b)

DecayEq(a, b) == DecayLeq(a, b) /\ DecayLeq(b, a)

\* The factor named for epoch e: 1, 1/5, 1/50, 1/5000 under the manual
\* schedule, 10^(-e / halflife) under the other.
ClaimedDecay(e) ==
    IF opts.decay_schedule.manual
    THEN [div |-> IF e < 30 THEN 1 ELSE IF e < 50 THEN 5
                  ELSE IF e < 100 THEN 50 ELSE 5000,
          num |-> 0, den |-> 1]
    ELSE [div |-> 1, num |-> e, den |-> opts.decay_schedule.halflife]

\* Every update of the last step of the running epoch was fed the factor
\* named for the epoch.
FedClaimedDecay ==
    (pc = "batch" /\ idx > 0) =>
        \A i \in Places("run") : DecayEq(stepTrace[i].feed.lr_decay, ClaimedDecay(epoch))

\* An epoch after the first has its factor and no step yet: the trace is the
\* last step of the epoch before.
NoIncrease ==
    (pc = "batch" /\ idx = 0 /\ epoch > 0) =>
        DecayLeq(decay, stepTrace[2].feed.lr_decay)

\* C14 as stated: the decay factor fed to every update of epoch e is 1,
\* 1/5, 1/50, 1/5000 for e below 30, 50, 100 and from 100 on under the manual
\* schedule, one value per epoch under either schedule, and under either
\* schedule the factor of an epoch is never above the one of the epoch before.
C14_DecayNeverIncreases == FedClaimedDecay /\ NoIncrease

\* C14: the decay factor fed to every update of epoch e is 1, 1/5, 1/50,
\* 1/5000 for e below 30, 50, 100 and from 100 on under the manual schedule
\* and 10^(-e / halflife) under the other, so one value per epoch; under the
\* manual schedule and with a positive half-life the factor of an epoch is
\* never above the one of the epoch before.
C14_DecaySchedule ==
    /\ FedClaimedDecay
    /\ (opts.decay_schedule.manual \/ opts.decay_schedule.halflife > 0) => NoIncrease

\* The second step of epoch 100 under the manual schedule, all drops made.
C14_Witness ==
    /\ opts.decay_schedule.manual
    /\ pc = "batch"
    /\ epoch = 100
    /\ idx = 2
    /\ stepTrace[2].feed.lr_decay.div = 5000

AuxTerms ==
    IF opts.adv_c_loss_w > 0 \/ opts.emb_c_loss_w > 0
    THEN opts.adv_c_loss_w * arg.adv_c_loss + opts.emb_c_loss_w * arg.emb_c_loss
    ELSE 0

\* C15: for z_test cramer, anderson or moments the latent-matching loss is the
\* test statistic plus z_test_corr_w times the correlation loss; for z_test
\* gan it is minus the critic's loss on the encoder codes, and the objective
\* built from it has no correlation term, whatever z_test_corr_w is.
C15_CorrelationTerm ==
    pc = "obj_done" =>
        /\ opts.z_test # "gan" =>
              res.loss_gan = arg.test_v + opts.z_test_corr_w * arg.loss_z_corr
        /\ opts.z_test = "gan" =>
              /\ res.loss_gan = 0 - arg.d_loss_Qz
              /\ res.loss = arg.loss_reconstr - opts.pot_lambda * arg.d_loss_Qz
                            + AuxTerms

\* The critic path with a correlation weight and a correlation loss set.
C15_Witness ==
    /\ pc = "obj_done"
    /\ opts.z_test = "gan"
    /\ opts.z_test_corr_w > 0
    /\ opts.pot_lambda > 0
    /\ arg.loss_z_corr > 0
    /\ res.loss_gan = 0 - arg.d_loss_Qz

CriticExists == graph.d_vars # {} /\ graph.d_optim

CriticAbsent == graph.d_vars = {} /\ ~graph.d_optim

\* C16: on a built object the critic's parameter group is non-empty and the
\* critic optimizer exists if and only if z_test is gan; with another
\* supported z_test there is neither, no run of the critic optimizer is ever
\* made and a batch step makes exactly one update call, of optim.
C16_CriticOnlyForGan ==
    graph.error = "none" =>
        /\ opts.z_test = "gan" => CriticExists
        /\ opts.z_test # "gan" =>
              /\ opts.z_test \in ValidZTests
              /\ CriticAbsent
              /\ \A i \in 1..Len(stepLog) : stepLog[i].optimizer # "d_optim"
              /\ RunPlaces("d_optim") = {}
              /\ stepTrace # <<>> =>
                    /\ Len(stepLog) = 1
                    /\ stepLog[1].optimizer = "optim"
                    /\ Cardinality(Places("run")) = 1

\* A batch step of an object built for the Cramer test.
C16_Witness ==
    /\ graph.error = "none"
    /\ opts.z_test = "cramer"
    /\ counter = 1
    /\ Len(stepLog) = 1
    /\ Places("run") = {2}

PlotPlaces(what) == {i \in Places("plot") : stepTrace[i].what = what}

\* C17: a batch step evaluates and reports the held-out diagnostics exactly
\* when verbose is set and the counter, after its increment, is a multiple of
\* 100; it requests the plot of samples and the plot of train
\* reconstructions exactly when verbose is set and the counter is a multiple
\* of plot_every; with verbose off no step does any of these.
C17_ReportCadence ==
    stepTrace # <<>> =>
        /\ Places("eval") # {} <=> (Verbose /\ counter % 100 = 0)
        /\ Places("log") # {} <=> (Verbose /\ counter % 100 = 0)
        /\ PlotPlaces("sample") # {} <=> (Verbose /\ counter % opts.plot_every = 0)
        /\ PlotPlaces("reconstr") # {} <=> (Verbose /\ counter % opts.plot_every = 0)
        /\ ~Verbose => Places("eval") \cup Places("log") \cup Places("plot") = {}

\* Step 200 with plot_every = 50: diagnostics and both plots in one step.
C17_Witness ==
    /\ opts.verbose = 1
    /\ opts.plot_every = 50
    /\ counter = 200
    /\ Places("eval") # {}
    /\ PlotPlaces("sample") # {}
    /\ PlotPlaces("reconstr") # {}

\* C18: on a feed of n >= 1 points with tf_run_batch_size b >= 1 _run_batch
\* returns after running the operation on exactly ceil(n / b) slices, each of
\* at least one and at most b points, which laid end to end are the indices
\* 0..n-1 in order, each once; the stacked result has n rows.
C18_SlicesCoverFeed ==
    (pc = "rb_done" /\ ~ZeroPoints) =>
        LET n == arg.shape[1]
            b == opts.tf_run_batch_size
            k == Len(res.result)
        IN  /\ res.outcome = "returned"
            /\ (k - 1) * b < n
            /\ n <= k * b
            /\ \A i \in 1..k : Len(res.result[i]) \in 1..b
            /\ Flatten(res.result) = [i \in 1..n |-> i - 1]
            /\ Len(res.rows) = n

\* Two slices or more, the last one shorter than the batch size.
C18_Witness ==
    /\ pc = "rb_done"
    /\ ~ZeroPoints
    /\ Len(res.result) >= 2
    /\ Len(res.result[Len(res.result)]) < opts.tf_run_batch_size
    /\ Len(res.rows) = arg.shape[1]

\* C19: a checkpoint is requested only at the head of an epoch, before its
\* batch steps, with the counter as it is there; so a train call that has
\* returned requested none after its last batch step, no request holds the
\* updates of the final epoch, and with gan_epoch_num <= save_every_epoch no
\* request is made at all.
C19_NoSaveAfterLastStep ==
    /\ [](/\ opts.gan_epoch_num <= opts.save_every_epoch => saves = <<>>
          /\ \A i \in 1..Len(saves) :
                /\ saves[i].epoch < opts.gan_epoch_num
                /\ saves[i].global_step = saves[i].epoch * batches_num
                /\ TrainDone => saves[i].global_step <= counter - batches_num)
    /\ [][saves' # saves =>
             \/ saves' = <<>>
             \/ /\ pc = "epoch"
                /\ pc' = "batch"
                /\ idx' = 0
                /\ saves' = Append(saves, [epoch |-> epoch, global_step |-> counter])]_vars

\* A returned train call whose last request precedes the steps of its final
\* epoch.
C19_Witness ==
    /\ TrainDone
    /\ opts.gan_epoch_num = 5
    /\ opts.save_every_epoch = 4
    /\ batches_num = 2
    /\ Len(saves) = 1
    /\ saves[1].global_step = 8
    /\ counter = 10

\* C20: the plot of held-out reconstructions is requested only in a step
\* where verbose is set and the counter is a multiple of both 100 and
\* plot_every; in a step where verbose is set and the counter is a multiple
\* of plot_every but not of 100 the plot of samples is requested without
\* held-out reconstructions, and with them when it is a multiple of both.
C20_TestReconstructions ==
    stepTrace # <<>> =>
        /\ PlotPlaces("test_reconstr") # {} =>
              (Verbose /\ counter % 100 = 0 /\ counter % opts.plot_every = 0)
        /\ (Verbose /\ counter % opts.plot_every = 0 /\ counter % 100 # 0) =>
              /\ PlotPlaces("sample") # {}
              /\ \A i \in PlotPlaces("sample") : ~stepTrace[i].rec_test
        /\ (Verbose /\ counter % opts.plot_every = 0 /\ counter % 100 = 0) =>
              \A i \in PlotPlaces("sample") : stepTrace[i].rec_test

\* Step 80 with plot_every = 40: samples are plotted, nothing held-out is.
C20_Witness ==
    /\ opts.verbose = 2
    /\ opts.plot_every = 40
    /\ counter = 80
    /\ PlotPlaces("sample") # {}
    /\ PlotPlaces("test_reconstr") = {}
    /\ \A i \in PlotPlaces("sample") : ~stepTrace[i].rec_test

\* C21: the trained flag is false from construction until a train call
\* returns normally; a step that sets it is the normal return of train; a
\* train call that raises leaves it as it was; once true it stays true
\* through every later operation, a failing train call and __exit__ included.
C21_TrainedMonotone ==
    /\ [](~everTrained => ~trained)
    /\ [](pc \in {"new", "failed"} => ~trained)
    /\ [][trained => trained']_vars
    /\ [][(~trained /\ trained') =>
             /\ pc = "epoch"
             /\ epoch >= opts.gan_epoch_num
             /\ ret' = Returned("train", "None", 0)]_vars
    /\ [][(ret' # ret /\ ret'.op = "train" /\ ret'.outcome = "raised") =>
             trained' = trained]_vars

\* A train call returned, a later one raised in a batch step, and the object
\* was closed: the flag is still set.
C21_Witness ==
    /\ pc = "closed"
    /\ trained
    /\ counter > 0
    /\ epoch < opts.gan_epoch_num
    /\ stepLog # <<>>

====
